---- MODULE Spec2Model ----
(***************************************************************************)
(* iedup: thin duplication of a GOG "enhanced edition" infinity engine     *)
(* installation (src/src/main.rs).  The program walks the source tree with *)
(* one function per directory role and, entry by entry, copies, symlinks   *)
(* or creates a directory in the target tree.                              *)
(*                                                                         *)
(* The model is the program's call stack executed over an abstract file    *)
(* system: the source tree is a function from relative paths to entry      *)
(* kinds, the target tree a function from the relative paths that exist to *)
(* what was placed there.  A directory listing is consumed in any order.   *)
(*                                                                         *)
(* A call fails when the shape of the two trees makes it fail (copying a   *)
(* directory, creating a path that exists, listing what is no directory);  *)
(* faults of the machine (permissions, full disk) are not injected.  The   *)
(* source argument is taken to be an absolute path, so that the referent   *)
(* of a link is the path the program wrote into it.                        *)
(***************************************************************************)
EXTENDS Naturals, Sequences, FiniteSets

VARIABLES
    source,     \* the source tree: relative path -> kind of the entry
    target,     \* the target tree: existing relative path -> entry
    target0,    \* the target tree as it was when the process started
    written,    \* source paths whose bytes the process has overwritten
    stack,      \* the call stack, innermost frame last
    ret,        \* Result a callee handed to the frame now on top: "none" or "Err"
    exit,       \* the process result: "running", "Ok" or "Err"
    error,      \* the first failing operation, NoError before
    last,       \* the file system operation issued by the latest step
    calls,      \* the handler invocations made so far: [fn, source]
    run,        \* 1, or 2 in the second of two runs from the same source
    first       \* outcome of the first run once the second has started

vars == <<source, target, target0, written, stack, ret, exit, error, last, calls, run, first>>

\* Number of entries by which a source tree may differ from the reference
\* installation.
MaxEdits == 1

-----------------------------------------------------------------------------
(* Names and extensions *)

MUS_EXT == "mus"
WAV_EXT == "wav"
NO_EXT == ""

\* Path::extension of the file names the model uses: the text after the last
\* dot of a name that does not start with one.
extension(name) ==
    CASE name = "a.wav" -> "wav"
      [] name = "t.mus" -> "mus"
      [] name = "song.acm" -> "acm"
      [] name = "t.acm" -> "acm"
      [] name = "sndlist.txt" -> "txt"
      [] name = "readme.txt" -> "txt"
      [] name = "start.sh" -> "sh"
      [] name = "chitin.key" -> "key"
      [] name = "engine.lua" -> "lua"
      [] name = "sod-dlc.zip" -> "zip"
      [] name = "a.bs" -> "bs"
      [] name = "a.bif" -> "bif"
      [] name = "dialog.tlk" -> "tlk"
      [] name = "m.wbm" -> "wbm"
      [] name = "o.itm" -> "itm"
      [] OTHER -> NO_EXT

\* glob's match of a file name against the pattern "*-dlc.zip".
MatchesDlcZip(name) == name \in {"sod-dlc.zip"}

-----------------------------------------------------------------------------
(* The source trees *)

\* Kinds of a source entry.  "symdir" is a symbolic link to a directory; a
\* symbolic link to a regular file behaves as "file" in every call the
\* program makes.
Kinds == {"file", "dir", "symdir"}

GAME == <<"game">>
LANG == <<"game", "lang">>
LOCALE == <<"game", "lang", "en_US">>

BaseDirs ==
    { <<>>, <<"support">>, GAME,
      GAME \o <<"Manuals">>, GAME \o <<"scripts">>, GAME \o <<"data">>, LANG,
      GAME \o <<"movies">>, GAME \o <<"music">>, GAME \o <<"override">>,
      LOCALE, LOCALE \o <<"movies">>, LOCALE \o <<"sounds">>,
      LOCALE \o <<"override">>, LOCALE \o <<"data">>,
      GAME \o <<"movies", "480">>, GAME \o <<"movies", "lo">>,
      GAME \o <<"music", "area">> }

BaseFiles ==
    { <<"start.sh">>, <<"gameinfo">>, <<"sod-dlc.zip">>,
      GAME \o <<"chitin.key">>, GAME \o <<"engine.lua">>, GAME \o <<"BaldursGate">>,
      GAME \o <<"scripts", "a.bs">>, GAME \o <<"data", "a.bif">>,
      LOCALE \o <<"dialog.tlk">>,
      LOCALE \o <<"sounds", "a.wav">>, LOCALE \o <<"sounds", "sndlist.txt">>,
      GAME \o <<"movies", "m.wbm">>, GAME \o <<"movies", "480", "m.wbm">>,
      GAME \o <<"music", "t.mus">>, GAME \o <<"music", "song.acm">>,
      GAME \o <<"music", "area", "t.acm">>,
      GAME \o <<"override", "o.itm">> }

\* Paths the reference installation does not have and an edit may add.
ExtraPaths == { LANG \o <<"readme.txt">> }

Paths == BaseDirs \cup BaseFiles \cup ExtraPaths

Parent(p) == SubSeq(p, 1, Len(p) - 1)
Name(p) == p[Len(p)]

BaseTree ==
    [p \in Paths |-> IF p \in BaseDirs THEN "dir"
                     ELSE IF p \in BaseFiles THEN "file" ELSE "none"]

\* A tree in which every entry lies in a directory (or behind a link to one).
Normalize(t) ==
    [p \in Paths |->
        IF \A n \in 0..(Len(p) - 1) : t[SubSeq(p, 1, n)] \in {"dir", "symdir"}
        THEN t[p] ELSE "none"]

Edits == [path : Paths, kind : Kinds \cup {"none"}]

Edit(t, e) == Normalize([t EXCEPT ![e.path] = e.kind])

RECURSIVE Trees(_)
Trees(n) ==
    IF n = 0 THEN {BaseTree}
    ELSE LET less == Trees(n - 1)
         IN  less \cup {Edit(t, e) : t \in less, e \in Edits}

\* The states a target path can be found in at start: an empty directory,
\* a directory with something in it, a regular file.
NoPath == <<>>
Entry(kind, root, path) == [kind |-> kind, root |-> root, path |-> path]
Existing(kind) == Entry(kind, "", NoPath)

EmptyTarget == [p \in {<<>>} |-> Existing("dir")]
UsedTarget == [p \in {<<>>, <<"old.txt">>} |->
                IF p = <<>> THEN Existing("dir") ELSE Existing("file")]
FileTarget == [p \in {<<>>} |-> Existing("file")]
Targets == {EmptyTarget, UsedTarget, FileTarget}

-----------------------------------------------------------------------------
(* The file system calls *)

Kind(s) == IF s \in Paths THEN source[s] ELSE "none"

\* Path::exists and Path::is_dir follow symbolic links; DirEntry::file_type
\* does not.
exists(s) == Kind(s) \in {"file", "dir", "symdir"}
is_dir(s) == Kind(s) \in {"dir", "symdir"}
file_type_is_dir(s) == Kind(s) = "dir"

\* Path::join
join(dir, item) == Append(dir, item)

\* The names Path::read_dir yields for a source directory.
Listing(s) == {Name(p) : p \in {q \in Paths : Len(q) = Len(s) + 1 /\ Parent(q) = s /\ source[q] # "none"}}

TargetHas(t) == t \in DOMAIN target
TargetIsDir(t) == TargetHas(t) /\ target[t].kind = "dir"
TargetParentIsDir(t) == t # <<>> /\ TargetIsDir(Parent(t))
TargetChildren(t) == {q \in DOMAIN target : q # <<>> /\ Parent(q) = t}

Placements == {"copy", "link", "mkdir"}

\* Whether a call succeeds in the current state.
\*   copy     std::fs::copy: the source is a regular file (or a link to one),
\*            the destination is in an existing directory and is no directory
\*   link     std::os::unix::fs::symlink: the destination does not exist and is
\*            in an existing directory; the referent is not looked at
\*   mkdir    std::fs::create_dir: the same
\*   read_dir the source is a directory (or a link to one)
FsOk(c) ==
    CASE c.op = "copy" -> Kind(c.s) = "file" /\ TargetParentIsDir(c.t) /\ ~TargetIsDir(c.t)
      [] c.op = "link" -> ~TargetHas(c.t) /\ TargetParentIsDir(c.t)
      [] c.op = "mkdir" -> ~TargetHas(c.t) /\ TargetParentIsDir(c.t)
      [] c.op = "read_dir" -> is_dir(c.s)

Put(t, e) == [q \in DOMAIN target \cup {t} |-> IF q = t THEN e ELSE target[q]]

\* std::fs::copy opens its destination for writing through a symbolic link.
CopyWritesThrough(c) == c.op = "copy" /\ TargetHas(c.t) /\ target[c.t].kind = "link"

\* The target tree after a successful call.
FsApply(c) ==
    CASE c.op = "copy" -> IF CopyWritesThrough(c) THEN target
                          ELSE Put(c.t, Entry("copy", c.root, c.s))
      [] c.op = "link" -> Put(c.t, Entry("link", c.root, c.s))
      [] c.op = "mkdir" -> Put(c.t, Existing("dir"))
      [] c.op = "read_dir" -> target

\* The source files a successful call has overwritten.
FsWrites(c) ==
    IF CopyWritesThrough(c) /\ target[c.t].root = "source" THEN {target[c.t].path} ELSE {}

-----------------------------------------------------------------------------
(* The placement primitives: each yields the file system call it makes *)

FsCall(op, root, s, t) == [op |-> op, root |-> root, s |-> s, t |-> t]

copy_item_os(src, tgt, item) == FsCall("copy", "source", join(src, item), join(tgt, item))
copy_item(src, tgt, item) == copy_item_os(src, tgt, item)

link_item_os(src, tgt, item) == FsCall("link", "source", join(src, item), join(tgt, item))
link_item(src, tgt, item) == link_item_os(src, tgt, item)

create_dir_str(tgt, item) == FsCall("mkdir", "", NoPath, join(tgt, item))
\* create_dir_os creating the directory under another name than the item's.
create_dir_os_misnamed(tgt, item) == FsCall("mkdir", "", NoPath, join(tgt, "new"))
create_dir_os(tgt, item) == FsCall("mkdir", "", NoPath, join(tgt, item))

read_dir(src) == FsCall("read_dir", "source", src, NoPath)

-----------------------------------------------------------------------------
(* The call stack *)

NoError == [op |-> "none", s |-> NoPath, t |-> NoPath]
NoOp == [op |-> "none", by |-> "", s |-> NoPath, t |-> NoPath,
         existed |-> FALSE, parent |-> FALSE, ok |-> FALSE]

Frame(fn, src, tgt) == [fn |-> fn, source |-> src, target |-> tgt, pc |-> 1, todo |-> {}]

Top == stack[Len(stack)]
Rest == SubSeq(stack, 1, Len(stack) - 1)
S == Top.source
T == Top.target

\* The frame on top is at statement pc of fn and holds no pending error.
At(fn, pc) == stack # <<>> /\ ret = "none" /\ Top.fn = fn /\ Top.pc = pc

Goto(pc) == Append(Rest, [Top EXCEPT !.pc = pc])
Step == Goto(Top.pc + 1)
\* The listing of a directory is kept in the frame; the loop takes its
\* entries in any order.
Listed(names) == Append(Rest, [Top EXCEPT !.pc = @ + 1, !.todo = names])
\* A loop that stops after its first entry.
Taken_break(name) == Append(Rest, [Top EXCEPT !.todo = {}])
Taken(name) == Append(Rest, [Top EXCEPT !.todo = @ \ {name}])
\* A call returns to the statement after it.
Call(frame) == Append(Step, frame)
CallTaken(name, frame) == Append(Taken(name), frame)
Called(frame) == calls \cup {[fn |-> frame.fn, source |-> frame.source]}

\* A call whose Err result is dropped.
Try_ignored(r) == FALSE
\* The `?` operator: an Err result leaves the function at once.
Try(r) == r = "Err"

\* A statement that makes no file system call.
Pure(nextStack, nextCalls) ==
    /\ stack' = nextStack
    /\ calls' = nextCalls
    /\ UNCHANGED <<source, target, target0, written, ret, exit, error, last, run, first>>

\* A file system call followed by `?`: on success the frame goes on as
\* okStack, on failure the function returns the error to its caller.
Issue(c, okStack, okCalls) ==
    LET ok == FsOk(c)
    IN  /\ last' = [op |-> c.op, by |-> Top.fn, s |-> c.s, t |-> c.t,
                    existed |-> TargetHas(c.t), parent |-> TargetParentIsDir(c.t),
                    ok |-> ok]
        /\ IF ok
           THEN /\ target' = FsApply(c)
                /\ written' = written \cup FsWrites(c)
                /\ stack' = okStack
                /\ calls' = okCalls
                /\ UNCHANGED <<ret, error>>
           ELSE /\ stack' = Rest
                /\ ret' = "Err"
                /\ error' = [op |-> c.op, s |-> c.s, t |-> c.t]
                /\ UNCHANGED <<target, written, calls>>
        /\ UNCHANGED <<source, target0, exit, run, first>>

\* Ok(()) at the end of a function.
ReturnOk == Pure(Rest, calls)

-----------------------------------------------------------------------------
(* The pre-flight validator *)

Hint == [os |-> "Linux", vendor |-> "Gog", variant |-> "Ee"]

\* The validator without its check of the support directory.
check_source_no_support(dir) ==
    exists(join(dir, "start.sh")) /\ is_dir(join(dir, "game"))

check_source_linux_gog_ee(dir) ==
    exists(join(dir, "start.sh")) /\ is_dir(join(dir, "game")) /\ is_dir(join(dir, "support"))

check_source(dir, hint) ==
    IF hint = [os |-> "Linux", vendor |-> "Gog", variant |-> "Ee"]
    THEN check_source_linux_gog_ee(dir)
    ELSE FALSE

\* main's checks before the first placement: source and target are
\* directories, the target has no entry, the source is an installation.
Preflight ==
    /\ is_dir(S)
    /\ TargetIsDir(T)
    /\ TargetChildren(T) = {}
    /\ check_source(S, Hint)

-----------------------------------------------------------------------------
(* The handlers *)

\* The listing a loop over source.read_dir() works on.  The entries the loop
\* body skips have no effect, so they are left out of the listing.
AllEntries == Listing(S)
NonDirs == {n \in Listing(S) : ~file_type_is_dir(join(S, n))}
GameNonDirs == {n \in NonDirs : n # "chitin.key" /\ n # "engine.lua"}
GlobMatches == {n \in Listing(S) : MatchesDlcZip(n) /\ ~is_dir(join(S, n))}

main ==
    \/ /\ At("main", 1)
       /\ IF Preflight
          THEN Pure(Step, calls)
          ELSE /\ stack' = Rest
               /\ ret' = "Err"
               /\ error' = [op |-> "precondition", s |-> S, t |-> T]
               /\ UNCHANGED <<source, target, target0, written, exit, last, calls, run, first>>
    \/ At("main", 2) /\ Issue(copy_item(S, T, "start.sh"), Step, calls)
    \/ At("main", 3) /\ Issue(link_item(S, T, "gameinfo"), Step, calls)
    \/ At("main", 4) /\ Issue(link_item(S, T, "support"), Step, calls)
    \/ /\ At("main", 5)
       /\ LET f == Frame("link_pattern_files", S, T) IN Pure(Call(f), Called(f))
    \/ /\ At("main", 6)
       /\ LET f == Frame("process_game_dir", join(S, "game"), join(T, "game"))
          IN  Issue(create_dir_str(T, "game"), Call(f), Called(f))
    \/ At("main", 7) /\ ReturnOk

\* process_dlc_zips: link_pattern_files with the pattern "*-dlc.zip".
link_pattern_files ==
    \/ At("link_pattern_files", 1) /\ Pure(Listed(GlobMatches), calls)
    \/ /\ At("link_pattern_files", 2)
       /\ \E n \in Top.todo : Issue(link_item_os(S, T, n), Taken(n), calls)
    \/ At("link_pattern_files", 2) /\ Top.todo = {} /\ ReturnOk

process_scripts_dir(src, tgt) == Frame("copy_content", src, tgt)
process_override_dir(src, tgt) == Frame("copy_content", src, tgt)
process_data_dir(src, tgt) == Frame("link_all_inside", src, tgt)

\* create_dir_str(target, item)? followed by the handler of the new directory.
Descend(item, f) == Issue(create_dir_str(T, item), Call(f), Called(f))

process_game_dir ==
    \/ At("process_game_dir", 1) /\ Issue(copy_item(S, T, "chitin.key"), Step, calls)
    \/ At("process_game_dir", 2) /\ Issue(copy_item(S, T, "engine.lua"), Step, calls)
    \/ At("process_game_dir", 3) /\ Issue(read_dir(S), Listed(GameNonDirs), calls)
    \/ /\ At("process_game_dir", 4)
       /\ \E n \in Top.todo : Issue(link_item_os(S, T, n), Taken(n), calls)
    \/ At("process_game_dir", 4) /\ Top.todo = {} /\ Pure(Step, calls)
    \/ At("process_game_dir", 5) /\ Issue(link_item(S, T, "Manuals"), Step, calls)
    \/ /\ At("process_game_dir", 6)
       /\ Descend("scripts", process_scripts_dir(join(S, "scripts"), join(T, "scripts")))
    \/ /\ At("process_game_dir", 7)
       /\ Descend("data", process_data_dir(join(S, "data"), join(T, "data")))
    \/ /\ At("process_game_dir", 8)
       /\ Descend("lang", Frame("process_lang_dir", join(S, "lang"), join(T, "lang")))
    \/ /\ At("process_game_dir", 9)
       /\ Descend("movies", Frame("process_movies_dir", join(S, "movies"), join(T, "movies")))
    \/ /\ At("process_game_dir", 10)
       /\ Descend("music", Frame("process_music_dir", join(S, "music"), join(T, "music")))
    \/ At("process_game_dir", 11) /\ Issue(create_dir_str(T, "override"), Step, calls)
    \/ /\ At("process_game_dir", 12)
       /\ IF exists(join(S, "override"))
          THEN LET f == process_override_dir(join(S, "override"), join(T, "override"))
               IN  Pure(Call(f), Called(f))
          ELSE Pure(Step, calls)
    \/ At("process_game_dir", 13) /\ ReturnOk


copy_content ==
    \/ At("copy_content", 1) /\ Issue(read_dir(S), Listed(AllEntries), calls)
    \/ /\ At("copy_content", 2)
       /\ \E n \in Top.todo : Issue(copy_item_os(S, T, n), Taken(n), calls)
    \/ At("copy_content", 2) /\ Top.todo = {} /\ ReturnOk

link_all_inside ==
    \/ At("link_all_inside", 1) /\ Issue(read_dir(S), Listed(AllEntries), calls)
    \/ /\ At("link_all_inside", 2)
       /\ \E n \in Top.todo : Issue(link_item_os(S, T, n), Taken(n), calls)
    \/ At("link_all_inside", 2) /\ Top.todo = {} /\ ReturnOk

link_non_dirs ==
    \/ At("link_non_dirs", 1) /\ Issue(read_dir(S), Listed(NonDirs), calls)
    \/ /\ At("link_non_dirs", 2)
       /\ \E n \in Top.todo : Issue(link_item_os(S, T, n), Taken(n), calls)
    \/ At("link_non_dirs", 2) /\ Top.todo = {} /\ ReturnOk

copy_non_dirs ==
    \/ At("copy_non_dirs", 1) /\ Issue(read_dir(S), Listed(NonDirs), calls)
    \/ /\ At("copy_non_dirs", 2)
       /\ \E n \in Top.todo : Issue(copy_item_os(S, T, n), Taken(n), calls)
    \/ At("copy_non_dirs", 2) /\ Top.todo = {} /\ ReturnOk

process_lang_dir ==
    \/ At("process_lang_dir", 1) /\ Issue(read_dir(S), Listed(AllEntries), calls)
    \/ /\ At("process_lang_dir", 2)
       /\ \E language \in Top.todo :
            LET f == Frame("process_language", join(S, language), join(T, language))
            IN  Issue(create_dir_os(T, language), CallTaken(language, f), Called(f))
    \/ At("process_lang_dir", 2) /\ Top.todo = {} /\ ReturnOk

\* An optional subdirectory handled without the exists() test.
Optional_unchecked(item, f) == Descend(item, f)
\* if source.join(item).exists() { create_dir_str(target, item)?; handler }
\* else nothing.
Optional(item, f) ==
    IF exists(join(S, item)) THEN Descend(item, f) ELSE Pure(Step, calls)

process_language ==
    \/ /\ At("process_language", 1)
       /\ LET f == Frame("copy_non_dirs", S, T) IN Pure(Call(f), Called(f))
    \/ /\ At("process_language", 2)
       /\ Optional("movies", Frame("process_movies_dir", join(S, "movies"), join(T, "movies")))
    \/ /\ At("process_language", 3)
       /\ Optional("sounds", Frame("process_sound_dir", join(S, "sounds"), join(T, "sounds")))
    \/ /\ At("process_language", 4)
       /\ Optional("override", process_override_dir(join(S, "override"), join(T, "override")))
    \/ /\ At("process_language", 5)
       /\ Optional("data", process_data_dir(join(S, "data"), join(T, "data")))
    \/ At("process_language", 6) /\ ReturnOk

IsWav(n) == extension(n) = WAV_EXT
process_sound_dir ==
    \/ At("process_sound_dir", 1) /\ Issue(read_dir(S), Listed(AllEntries), calls)
    \/ /\ At("process_sound_dir", 2)
       /\ \E n \in Top.todo :
            IF IsWav(n)
            THEN Issue(link_item_os(S, T, n), Taken(n), calls)
            ELSE Issue(copy_item_os(S, T, n), Taken(n), calls)
    \/ At("process_sound_dir", 2) /\ Top.todo = {} /\ ReturnOk

process_movies_dir ==
    \/ /\ At("process_movies_dir", 1)
       /\ LET f == Frame("link_non_dirs", S, T) IN Pure(Call(f), Called(f))
    \/ /\ At("process_movies_dir", 2)
       /\ Optional("480", Frame("link_all_inside", join(S, "480"), join(T, "480")))
    \/ /\ At("process_movies_dir", 3)
       /\ Optional("lo", Frame("link_all_inside", join(S, "lo"), join(T, "lo")))
    \/ At("process_movies_dir", 4) /\ ReturnOk

IsMus(n) == extension(n) = MUS_EXT
process_music_dir ==
    \/ At("process_music_dir", 1) /\ Issue(read_dir(S), Listed(AllEntries), calls)
    \/ /\ At("process_music_dir", 2)
       /\ \E n \in Top.todo :
            IF file_type_is_dir(join(S, n))
            THEN LET f == Frame("link_all_inside", join(S, n), join(T, n))
                 IN  Issue(create_dir_os(T, n), CallTaken(n, f), Called(f))
            ELSE IF IsMus(n)
                 THEN Issue(copy_item_os(S, T, n), Taken(n), calls)
                 ELSE Issue(link_item_os(S, T, n), Taken(n), calls)
    \/ At("process_music_dir", 2) /\ Top.todo = {} /\ ReturnOk

-----------------------------------------------------------------------------
(* Error propagation and process exit *)

\* The frame on top called a function that returned Err: its `?` returns the
\* error to its own caller.
Propagate ==
    /\ stack # <<>>
    /\ ret = "Err"
    /\ IF Try(ret)
       THEN stack' = Rest /\ ret' = ret
       ELSE stack' = stack /\ ret' = "none"
    /\ UNCHANGED <<source, target, target0, written, exit, error, last, calls, run, first>>

\* main has returned: the process ends with its result.
Exit ==
    /\ stack = <<>>
    /\ exit = "running"
    /\ exit' = IF ret = "Err" THEN "Err" ELSE "Ok"
    /\ UNCHANGED <<source, target, target0, written, stack, ret, error, last, calls, run, first>>

\* The program is started a second time, from the same source, into a target
\* that is as the first one was.
Kinds_of(t) == [p \in DOMAIN t |-> t[p].kind]
NoRun == [exit |-> "none", tree |-> <<>>]
Restart ==
    /\ exit # "running"
    /\ run = 1
    /\ run' = 2
    /\ first' = [exit |-> exit, tree |-> Kinds_of(target)]
    /\ target' = target0
    /\ written' = {}
    /\ stack' = <<Frame("main", <<>>, <<>>)>>
    /\ ret' = "none"
    /\ exit' = "running"
    /\ error' = NoError
    /\ last' = NoOp
    /\ calls' = {}
    /\ UNCHANGED <<source, target0>>

Init ==
    /\ source \in Trees(MaxEdits)
    /\ target \in Targets
    /\ target0 = target
    /\ written = {}
    /\ stack = <<Frame("main", <<>>, <<>>)>>
    /\ ret = "none"
    /\ exit = "running"
    /\ error = NoError
    /\ last = NoOp
    /\ calls = {}
    /\ run = 1
    /\ first = NoRun

Next ==
    \/ main
    \/ link_pattern_files
    \/ process_game_dir
    \/ copy_content
    \/ link_all_inside
    \/ link_non_dirs
    \/ copy_non_dirs
    \/ process_lang_dir
    \/ process_language
    \/ process_sound_dir
    \/ process_movies_dir
    \/ process_music_dir
    \/ Propagate
    \/ Exit

Spec == Init /\ [][Next]_vars

\* Two runs, one after the other.
NextTwice == Next \/ Restart
SpecTwice == Init /\ [][NextTwice]_vars

-----------------------------------------------------------------------------
(* What the claims speak of *)

Terminated == exit # "running"
Failed == error # NoError

\* The source passes pre-flight validation and the target is an existing
\* empty directory.
ValidPair ==
    /\ Kind(<<>>) \in {"dir", "symdir"}
    /\ Kind(<<"start.sh">>) \in {"file", "dir", "symdir"}
    /\ Kind(<<"game">>) \in {"dir", "symdir"}
    /\ Kind(<<"support">>) \in {"dir", "symdir"}
    /\ target0 = EmptyTarget

\* The structure of the target tree below its root: <<path, kind>> pairs.
Placed == {<<p, target[p].kind>> : p \in DOMAIN target \ {<<>>}}

\* The entries the per-role policy dictates for the source tree, role by role
\* (root, game-root, copy-all, link-all, language, movies, sounds, music).
PolicyOf(d, keep(_), kind) == {<<join(d, n), kind>> : n \in {m \in Listing(d) : keep(m)}}
PolicyCopyAll(d) == LET K(n) == Kind(join(d, n)) # "dir" IN PolicyOf(d, K, "copy")
PolicyLinkAll(d) == LET K(n) == TRUE IN PolicyOf(d, K, "link")
PolicyInDir(d, entries) == {<<d, "dir">>} \cup entries
PolicyOptional(d, entries) == IF exists(d) THEN PolicyInDir(d, entries) ELSE {}
PolicyMovies(d) ==
    LET K(n) == Kind(join(d, n)) # "dir"
    IN  PolicyOf(d, K, "link")
          \cup PolicyOptional(join(d, "480"), PolicyLinkAll(join(d, "480")))
          \cup PolicyOptional(join(d, "lo"), PolicyLinkAll(join(d, "lo")))
PolicySounds(d) ==
    LET W(n) == extension(n) = "wav"
        O(n) == extension(n) # "wav"
    IN  PolicyOf(d, W, "link") \cup PolicyOf(d, O, "copy")
PolicyMusic(d) ==
    LET D(n) == Kind(join(d, n)) = "dir"
        M(n) == Kind(join(d, n)) # "dir" /\ extension(n) = "mus"
        O(n) == Kind(join(d, n)) # "dir" /\ extension(n) # "mus"
    IN  PolicyOf(d, D, "dir") \cup PolicyOf(d, M, "copy") \cup PolicyOf(d, O, "link")
          \cup UNION {PolicyLinkAll(join(d, n)) : n \in {m \in Listing(d) : D(m)}}
PolicyLocale(d) ==
    PolicyInDir(d, PolicyCopyAll(d))
      \cup PolicyOptional(join(d, "movies"), PolicyMovies(join(d, "movies")))
      \cup PolicyOptional(join(d, "sounds"), PolicySounds(join(d, "sounds")))
      \cup PolicyOptional(join(d, "override"), PolicyCopyAll(join(d, "override")))
      \cup PolicyOptional(join(d, "data"), PolicyLinkAll(join(d, "data")))
PolicyLang(d) ==
    UNION {PolicyLocale(join(d, n)) : n \in {m \in Listing(d) : Kind(join(d, m)) = "dir"}}
PolicyGame(d) ==
    LET X(n) == Kind(join(d, n)) # "dir" /\ n \notin {"chitin.key", "engine.lua"}
    IN  {<<join(d, "chitin.key"), "copy">>, <<join(d, "engine.lua"), "copy">>,
         <<join(d, "Manuals"), "link">>}
          \cup PolicyOf(d, X, "link")
          \cup PolicyInDir(join(d, "scripts"), PolicyCopyAll(join(d, "scripts")))
          \cup PolicyInDir(join(d, "data"), PolicyLinkAll(join(d, "data")))
          \cup PolicyInDir(join(d, "lang"), PolicyLang(join(d, "lang")))
          \cup PolicyInDir(join(d, "movies"), PolicyMovies(join(d, "movies")))
          \cup PolicyInDir(join(d, "music"), PolicyMusic(join(d, "music")))
          \cup PolicyInDir(join(d, "override"), PolicyCopyAll(join(d, "override")))
Policy ==
    LET Z(n) == MatchesDlcZip(n) /\ Kind(<<n>>) \notin {"dir", "symdir"}
    IN  {<<<<"start.sh">>, "copy">>, <<<<"gameinfo">>, "link">>, <<<<"support">>, "link">>}
          \cup PolicyOf(<<>>, Z, "link")
          \cup PolicyInDir(<<"game">>, PolicyGame(<<"game">>))

-----------------------------------------------------------------------------
(* The claims *)

\* C1: for every source tree that passes pre-flight validation and every
\* empty existing target, the run ends successfully with the target holding
\* exactly the entries the per-role policy dictates, each of the kind (copy,
\* link, directory) the policy assigns.
C1_RunMaterializesPolicy ==
    (Terminated /\ ValidPair) => (exit = "Ok" /\ Placed = Policy)

\* C2: in a run that starts from an empty target no copy, link or mkdir is
\* issued for a target path that already exists.
C2_NoPlacementOnExistingPath ==
    (target0 = EmptyTarget /\ last.op \in Placements) => ~last.existed

\* C3: every link in the target points at the source entry with the link's own
\* relative path, and that source entry exists.
C3_LinksPointAtExistingSource ==
    \A p \in DOMAIN target :
        target[p].kind = "link" =>
            /\ target[p].root = "source"
            /\ target[p].path = p
            /\ Kind(p) # "none"

\* The subdirectories that may be missing: movies, sounds, override and data
\* of a locale, 480 and lo of a movies directory.
Locales == {p \in Paths : Len(p) = 3 /\ Parent(p) = LANG}
MoviesDirs == {join(GAME, "movies")} \cup {join(l, "movies") : l \in Locales}
OptionalSubdirs ==
    {join(l, d) : l \in Locales, d \in {"movies", "sounds", "override", "data"}}
      \cup {join(m, q) : m \in MoviesDirs, q \in {"480", "lo"}}

\* C4: a missing optional subdirectory is never the operation the run fails
\* on, and the target gets no counterpart for it; with no override directory
\* under game-root, a successful run leaves an empty game/override directory.
C4_AbsentSubdirectoryTolerated ==
    /\ \A p \in OptionalSubdirs \cup {join(GAME, "override")} :
          Kind(p) = "none" => (error.s # p /\ error.t # p)
    /\ \A p \in OptionalSubdirs : Kind(p) = "none" => ~TargetHas(p)
    /\ (exit = "Ok" /\ Kind(join(GAME, "override")) = "none") =>
          (TargetIsDir(join(GAME, "override")) /\ TargetChildren(join(GAME, "override")) = {})
C4_Witness ==
    /\ exit = "Ok"
    /\ Kind(join(GAME, "override")) = "none"
    /\ Kind(join(LOCALE, "movies")) = "dir"
    /\ Kind(LOCALE \o <<"movies", "480">>) = "none"
    /\ [fn |-> "process_movies_dir", source |-> join(LOCALE, "movies")] \in calls

\* A precondition of the run is not met: the target directory is not empty,
\* or the source lacks start.sh, a game directory or a support directory.
PreconditionUnmet ==
    \/ \E p \in DOMAIN target0 : p # <<>>
    \/ Kind(<<"start.sh">>) = "none"
    \/ Kind(<<"game">>) \notin {"dir", "symdir"}
    \/ Kind(<<"support">>) \notin {"dir", "symdir"}

\* C5: when a precondition is not met the run ends with an error and no copy,
\* link or mkdir has been issued: target and source are as they were.
C5_UnmetPreconditionTouchesNothing ==
    PreconditionUnmet =>
        /\ target = target0
        /\ written = {}
        /\ last.op = "none"
        /\ exit # "Ok"
        /\ (stack = <<>> => ret = "Err")
C5_Witness ==
    /\ exit = "Err"
    /\ target0 = EmptyTarget
    /\ Kind(<<"support">>) = "file"
    /\ Kind(<<"start.sh">>) = "file"
    /\ Kind(<<"game">>) = "dir"

\* C6: once an operation has failed, no step places anything or invokes a
\* handler, the target keeps every entry it had, and the run does not end
\* successfully.
C6_FirstFailureAborts ==
    [][Failed => (target' = target /\ written' = written /\ last' = last
                    /\ calls' = calls /\ error' = error /\ exit' # "Ok"
                    /\ (exit' # "running" => exit' = "Err"))]_vars
C6_Witness ==
    /\ exit = "Err"
    /\ error.op = "copy"
    /\ Len(error.s) = 5
    /\ \E p \in DOMAIN target : Len(p) = 4

C8_ParentCreatedFirst ==
    /\ last.op \in Placements => last.parent
    /\ \A p \in DOMAIN target : p # <<>> => TargetIsDir(Parent(p))
    /\ last.op = "mkdir" => last.t # <<>>
    /\ TargetHas(<<>>) <=> <<>> \in DOMAIN target0
C8_Witness ==
    /\ last.op = "link"
    /\ last.ok
    /\ last.t = GAME \o <<"music", "area", "t.acm">>

\* The directories copy-all is used for: game/scripts and every override.
CopyAllDirs ==
    {join(GAME, "scripts"), join(GAME, "override")} \cup {join(l, "override") : l \in Locales}

\* C9: copy-all issues a copy for every non-directory entry of its source
\* directory and for no directory entry.
C9_CopyAllCopiesNonDirectoriesOnly ==
    /\ (last.by = "copy_content" /\ last.op = "copy") => Kind(last.s) # "dir"
    /\ exit = "Ok" =>
          \A d \in CopyAllDirs : \A n \in Listing(d) :
              (exists(d) /\ Kind(join(d, n)) # "dir") =>
                  (TargetHas(join(d, n)) /\ target[join(d, n)].kind = "copy")

\* C10: the language-locale handler is invoked, and a directory is created in
\* target/lang, only for the child directories of the source lang directory.
C10_LocaleHandlerForDirectoriesOnly ==
    /\ \A c \in calls : c.fn = "process_language" => Kind(c.source) \in {"dir", "symdir"}
    /\ \A p \in DOMAIN target :
          (Len(p) = 3 /\ Parent(p) = LANG) => Kind(p) \in {"dir", "symdir"}

====
